---- MODULE Spec2Model ----
(***************************************************************************)
(* Country / capital matching game (src/src/App.tsx, mounted by the entry  *)
(* file src/unnamed/part_000 inside <React.StrictMode>).                   *)
(*                                                                         *)
(* The state is the React state of the App component plus the query        *)
(* result of useQuery, the outstanding setTimeout callbacks and the        *)
(* outstanding refetch() promises.  One action per event handler / timer / *)
(* promise callback.                                                       *)
(***************************************************************************)
EXTENDS Integers, Sequences, FiniteSets, TLC

VARIABLES
    status,      \* useQuery: "loading" (isLoading), "error" (isError), "success"
    countries,   \* useQuery data: <<>> (undefined) or <<list of Country>>
    quizData,    \* useState<QuizItem[]>   the deck
    selected,    \* useState<QuizItem[]>   pending selection
    matched,     \* useState<QuizItem[]>
    incorrect,   \* useState<boolean>
    gameWon,     \* useState<boolean>
    roundsWon,   \* useState<number>
    timers,      \* number of setTimeout callbacks not yet run
    refetches,   \* number of refetch() promises whose .then has not yet run
    roundsCompleted, \* history: how often newMatched.length === quizData.length held
    failureCount, \* useQuery: failed attempts of the fetch that is loading
    lastOp       \* the handler that ran last and the branch it took

vars == <<status, countries, quizData, selected, matched, incorrect, gameWon,
          roundsWon, timers, refetches, roundsCompleted, failureCount, lastOp>>

(***************************************************************************)
(* Bounds of the model.                                                    *)
(***************************************************************************)
NumCountries == 7      \* how many records of Directory the API may return
MaxRot       == 1      \* shuffles explored: rotations by 0..MaxRot, and their reversals
MaxRounds    == 2      \* clicks are explored while roundsWon < MaxRounds
MaxTimers    == 2      \* a mismatch is explored while fewer timers are outstanding
MaxRefetch   == 2      \* Play Again is explored while fewer refetches are in flight

(***************************************************************************)
(* Program constants.                                                      *)
(***************************************************************************)
SampleSize == 5        \* slice(0, 5)
Retries == 3           \* new QueryClient() without options: a failed query is retried 3 times
NA == "N/A"            \* sentinel for an unknown capital

Min(a, b) == IF a <= b THEN a ELSE b

(***************************************************************************)
(* Records as the directory API returns them: name.common and the optional *)
(* array capital.  A missing capital is the empty sequence.                *)
(***************************************************************************)
Directory ==
    << [name |-> "France",       capital |-> <<"Paris">>],
       [name |-> "Antarctica",   capital |-> <<>>],
       [name |-> "Singapore",    capital |-> <<"Singapore">>],
       [name |-> "Jamaica",      capital |-> <<"Kingston">>],
       [name |-> "Norfolk",      capital |-> <<"Kingston">>],
       [name |-> "South Africa", capital |-> <<"Pretoria", "Cape Town">>],
       [name |-> "Japan",        capital |-> <<"Tokyo">>],
       [name |-> "Peru",         capital |-> <<"Lima">>],
       [name |-> "Bouvet",       capital |-> <<"">>] >>

\* The sub-list of Directory at the positions idx, in Directory order.
RECURSIVE SubList(_, _)
SubList(idx, from) ==
    IF from > Len(Directory) THEN <<>>
    ELSE IF from \in idx THEN <<Directory[from]>> \o SubList(idx, from + 1)
    ELSE SubList(idx, from + 1)

\* Every response the API may give: any sub-list of the first NumCountries records.
Responses == { SubList(idx, 1) : idx \in SUBSET (1..Min(NumCountries, Len(Directory))) }

\* The responses the game is played with.
GameResponses ==
    { SubList({2}, 1),             \* Antarctica alone: no country to play with
      SubList({1, 2}, 1),          \* France, Antarctica
      SubList({3, 4}, 1),          \* Singapore (name = capital), Jamaica
      SubList({4, 5}, 1) }         \* Jamaica and Norfolk share Kingston

\* fetchCountries: country.capital?.[0] || "N/A"
fetchCountries(response) ==
    [i \in 1..Len(response) |->
        [name    |-> response[i].name,
         capital |-> IF response[i].capital = <<>> THEN NA
                     ELSE IF response[i].capital[1] = "" THEN NA
                     ELSE response[i].capital[1]]]

(***************************************************************************)
(* shuffleArray: array.sort(() => Math.random() - 0.5).  The comparator is *)
(* random, so the result is some permutation of the array; the model       *)
(* explores the rotations by 0..MaxRot and their reversals.                *)
(***************************************************************************)
Rotate(s, k) == [i \in 1..Len(s) |-> s[((i + k - 1) % Len(s)) + 1]]

Reverse(s) == [i \in 1..Len(s) |-> s[Len(s) + 1 - i]]

shuffleArray(array) ==
    IF Len(array) = 0 THEN {array}
    ELSE { Rotate(array, k) : k \in 0..Min(MaxRot, Len(array) - 1) }
         \cup { Reverse(Rotate(array, k)) : k \in 0..Min(MaxRot, Len(array) - 1) }

\* countries kept without the filter on "N/A"
countriesWithCapitals_noFilter(cs) == cs

\* countries.filter((country) => country.capital !== "N/A")
countriesWithCapitals(cs) == SelectSeq(cs, LAMBDA c : c.capital # NA)

\* the sample taken without the cap
slice_noCap(s, n) == s

\* .slice(0, 5)
slice(s, n) == SubSeq(s, 1, Min(n, Len(s)))

\* the forEach of initializeGame: two tiles per selected country, id = 1, 2, ...
quizItems(selectedCountries) ==
    [k \in 1..(2 * Len(selectedCountries)) |->
        LET country == selectedCountries[(k + 1) \div 2] IN
        IF k % 2 = 1
        THEN [id |-> k, type |-> "country",
              value |-> country.name, pairValue |-> country.capital]
        ELSE [id |-> k, type |-> "capital",
              value |-> country.capital, pairValue |-> country.name]]

\* the samples initializeGame may draw from cs
selectedCountries(cs) ==
    { slice(s, SampleSize) : s \in shuffleArray(countriesWithCapitals(cs)) }

\* the decks initializeGame may pass to setQuizData
Decks(cs) ==
    UNION { shuffleArray(quizItems(sel)) : sel \in selectedCountries(cs) }

\* initializeGame without setMatched([])
initializeGame_keepsMatched(cs) ==
    /\ quizData' \in Decks(cs)
    /\ selected' = <<>>
    /\ gameWon' = FALSE
    /\ UNCHANGED <<matched, incorrect, roundsWon, timers>>

\* initializeGame(cs): setQuizData, setMatched([]), setSelected([]), setGameWon(false)
initializeGame(cs) ==
    /\ quizData' \in Decks(cs)
    /\ matched' = <<>>
    /\ selected' = <<>>
    /\ gameWon' = FALSE
    /\ UNCHANGED <<incorrect, roundsWon, timers>>

Init ==
    /\ status = "loading"
    /\ countries = <<>>
    /\ quizData = <<>>
    /\ selected = <<>>
    /\ matched = <<>>
    /\ incorrect = FALSE
    /\ gameWon = FALSE
    /\ roundsWon = 0
    /\ timers = 0
    /\ refetches = 0
    /\ roundsCompleted = 0
    /\ failureCount = 0
    /\ lastOp = [name |-> "mount", id |-> 0, branch |-> "none"]

\* The first fetch succeeds with one of the responses rs: data arrives and the
\* effect on [countries] runs initializeGame.
Fetched(rs) ==
    /\ status = "loading"
    /\ \E r \in rs :
          /\ countries' = <<fetchCountries(r)>>
          /\ initializeGame(fetchCountries(r))
    /\ status' = "success"
    /\ failureCount' = 0
    /\ lastOp' = [name |-> "fetch", id |-> 0, branch |-> "effect"]
    /\ UNCHANGED <<refetches, roundsCompleted>>

FetchSuccess == Fetched(GameResponses)

\* An attempt of the first fetch fails.  The query client is created without
\* options, so the query retries a failed attempt by itself, Retries times,
\* and stays loading meanwhile; the failure after the last retry sets isError
\* and the component renders the error message.
FetchError ==
    /\ status = "loading"
    /\ failureCount' = failureCount + 1
    /\ IF failureCount < Retries
       THEN /\ status' = "loading"
            /\ lastOp' = [name |-> "fetch", id |-> 0, branch |-> "retry"]
       ELSE /\ status' = "error"
            /\ lastOp' = [name |-> "fetch", id |-> 0, branch |-> "error"]
    /\ UNCHANGED <<countries, quizData, selected, matched, incorrect, gameWon,
                   roundsWon, timers, refetches, roundsCompleted>>

\* the comparison without the test on pairValue
isPair_typeOnly(firstSelected, item) == firstSelected.type # item.type

\* the comparison without the test on the types
isPair_valueOnly(firstSelected, item) == firstSelected.pairValue = item.value

\* the comparison with === in place of !== on the types
isPair_sameType(firstSelected, item) ==
    /\ firstSelected.type = item.type
    /\ firstSelected.pairValue = item.value

\* firstSelected.type !== item.type && firstSelected.pairValue === item.value
isPair(firstSelected, item) ==
    /\ firstSelected.type # item.type
    /\ firstSelected.pairValue = item.value

\* every tile of the deck keeps its button
isRendered_matchedToo(item) == ~gameWon

\* gameWon ? <Play again> : ... !matched.find((m) => m.id === item.id) ? <Button>:
\* the tile's button is rendered
isRendered(item) ==
    /\ ~gameWon
    /\ ~ \E i \in 1..Len(matched) : matched[i].id = item.id

\* How often React calls the updater passed to setMatched: once, or twice
\* under <React.StrictMode> in a development build.
StrictModeInvocations == {1, 2}

\* the updater passed to setMatched: the calls it makes on gameWon and roundsWon
setMatchedUpdater(newMatched) ==
    IF Len(newMatched) = Len(quizData)
    THEN /\ gameWon' = TRUE
         /\ \E n \in StrictModeInvocations : roundsWon' = roundsWon + n
         /\ roundsCompleted' = roundsCompleted + 1
    ELSE UNCHANGED <<gameWon, roundsWon, roundsCompleted>>

handleButtonClick(item) ==
    IF Len(selected) = 0
    THEN /\ selected' = <<item>>
         /\ lastOp' = [name |-> "click", id |-> item.id, branch |-> "select"]
         /\ UNCHANGED <<matched, incorrect, gameWon, roundsWon, timers,
                        roundsCompleted>>
    ELSE IF Len(selected) = 1
    THEN LET firstSelected == selected[1] IN
         IF isPair(firstSelected, item)
         THEN LET newMatched == matched \o <<firstSelected, item>> IN
              /\ matched' = newMatched
              /\ setMatchedUpdater(newMatched)
              /\ selected' = <<>>
              /\ lastOp' = [name |-> "click", id |-> item.id, branch |-> "match"]
              /\ UNCHANGED <<incorrect, timers>>
         ELSE /\ timers < MaxTimers
              /\ selected' = selected \o <<item>>
              /\ incorrect' = TRUE
              /\ timers' = timers + 1
              /\ lastOp' = [name |-> "click", id |-> item.id, branch |-> "mismatch"]
              /\ UNCHANGED <<matched, gameWon, roundsWon, roundsCompleted>>
    ELSE /\ lastOp' = [name |-> "click", id |-> item.id, branch |-> "ignored"]
         /\ UNCHANGED <<selected, matched, incorrect, gameWon, roundsWon, timers,
                        roundsCompleted>>

\* The user clicks on the place of a tile of the deck.  The deck is on screen
\* only when the query is neither loading nor in error; a tile that has no
\* button has no handler to run.
Click ==
    /\ status = "success"
    /\ roundsWon < MaxRounds
    /\ \E i \in 1..Len(quizData) :
          IF isRendered(quizData[i])
          THEN handleButtonClick(quizData[i])
          ELSE /\ lastOp' = [name |-> "click", id |-> quizData[i].id,
                             branch |-> "notRendered"]
               /\ UNCHANGED <<selected, matched, incorrect, gameWon, roundsWon,
                              timers, roundsCompleted>>
    /\ UNCHANGED <<status, countries, quizData, refetches, failureCount>>

\* a timer callback that forgets setIncorrect(false)
TimerFire_keepsHighlight ==
    /\ timers > 0
    /\ selected' = <<>>
    /\ timers' = timers - 1
    /\ lastOp' = [name |-> "timer", id |-> 0, branch |-> "clear"]
    /\ UNCHANGED <<status, countries, quizData, matched, incorrect, gameWon,
                   roundsWon, refetches, roundsCompleted, failureCount>>

\* the callback passed to setTimeout
TimerFire ==
    /\ timers > 0
    /\ selected' = <<>>
    /\ incorrect' = FALSE
    /\ timers' = timers - 1
    /\ lastOp' = [name |-> "timer", id |-> 0, branch |-> "clear"]
    /\ UNCHANGED <<status, countries, quizData, matched, gameWon, roundsWon,
                   refetches, roundsCompleted, failureCount>>

\* handlePlayAgain: the button is rendered when gameWon; refetch() is started.
handlePlayAgain ==
    /\ status = "success"
    /\ gameWon
    /\ refetches < MaxRefetch
    /\ refetches' = refetches + 1
    /\ lastOp' = [name |-> "playAgain", id |-> 0, branch |-> "refetch"]
    /\ UNCHANGED <<status, countries, quizData, selected, matched, incorrect,
                   gameWon, roundsWon, timers, roundsCompleted, failureCount>>

\* The .then of a refetch() promise runs.  The promise resolves with the query
\* result: the data fetched, or on failure (the failure after the last retry;
\* the retries of a refetch are not told apart) the data the query still holds, and
\* initializeGame runs on it.  When the data changed, the effect on [countries]
\* runs initializeGame on the same data as well, which draws a deck again.
RefetchResolve ==
    /\ refetches > 0
    /\ refetches' = refetches - 1
    /\ UNCHANGED <<roundsCompleted, failureCount>>
    /\ \/ \E r \in GameResponses :
             /\ status' = "success"
             /\ countries' = <<fetchCountries(r)>>
             /\ initializeGame(fetchCountries(r))
             /\ lastOp' = [name |-> "refetch", id |-> 0, branch |-> "data"]
       \/ /\ status' = "error"
          /\ countries' = countries
          /\ initializeGame(countries[1])
          /\ lastOp' = [name |-> "refetch", id |-> 0, branch |-> "error"]

Next ==
    \/ FetchSuccess
    \/ FetchError
    \/ Click
    \/ TimerFire
    \/ handlePlayAgain
    \/ RefetchResolve

Spec == Init /\ [][Next]_vars

\* The timer callback runs once its delay has passed.
FairSpec == Spec /\ WF_vars(TimerFire)

\* initializeGame on every response the API may give.
FetchAny == Fetched(Responses)

InitializeNext == FetchAny

InitializeSpec == Init /\ [][InitializeNext]_vars

(***************************************************************************)
(* Properties.                                                             *)
(***************************************************************************)
\* the tile of the current deck with this id
TileById(id) == CHOOSE t \in {quizData[i] : i \in 1..Len(quizData)} : t.id = id

\* the step is a run of handleButtonClick
HandlerRan == lastOp'.name = "click" /\ lastOp'.branch # "notRendered"

\* the step ran initializeGame
InitializeRan ==
    \/ lastOp'.name = "fetch" /\ lastOp'.branch = "effect"
    \/ lastOp'.name = "refetch"

\* C1: with exactly one tile pending, a click matches iff the two tiles' types
\* differ and the pending tile's pairValue is the clicked tile's value; a match
\* appends both tiles to matched and empties the selection; any other click
\* leaves matched as it was.
C1_MatchIff ==
    [][ (HandlerRan /\ Len(selected) = 1) =>
            LET pending == selected[1]
                clicked == TileById(lastOp'.id)
            IN  IF pending.type # clicked.type /\ pending.pairValue = clicked.value
                THEN matched' = matched \o <<pending, clicked>> /\ selected' = <<>>
                ELSE matched' = matched ]_vars

C1_Witness ==
    /\ lastOp.name = "click" /\ lastOp.branch = "match"
    /\ Len(matched) >= 2
    /\ matched[Len(matched)].id = lastOp.id
    /\ selected = <<>>

\* C2: a step in which matched comes to cover the whole deck sets gameWon and
\* adds exactly 1 to roundsWon; no other step changes roundsWon.
C2_RoundsWonByOne ==
    [][ IF Len(matched') > Len(matched) /\ Len(matched') = Len(quizData')
        THEN gameWon' /\ roundsWon' = roundsWon + 1
        ELSE roundsWon' = roundsWon ]_vars

\* C3: matched is a sequence of pairs, each of one country tile and one capital
\* tile; two tiles of the same type are never matched.
C3_PairsOfBothTypes ==
    /\ Len(matched) % 2 = 0
    /\ \A k \in 1..Len(matched) :
          k % 2 = 1 => {matched[k].type, matched[k + 1].type} = {"country", "capital"}

C3_Witness ==
    /\ lastOp.name = "click" /\ lastOp.branch = "mismatch"
    /\ Len(selected) = 2
    /\ selected[1].type = selected[2].type
    /\ selected[1].pairValue = selected[2].value

\* C4: a click on a tile that is in matched changes none of selected, matched,
\* incorrect, gameWon, roundsWon, the deck, and starts no timer.
C4_MatchedTileClick ==
    [][ (lastOp'.name = "click"
         /\ \E i \in 1..Len(matched) : matched[i].id = lastOp'.id)
        => UNCHANGED <<selected, matched, incorrect, gameWon, roundsWon,
                       quizData, timers>> ]_vars

C4_Witness ==
    /\ lastOp.name = "click" /\ lastOp.branch = "notRendered"
    /\ ~gameWon
    /\ \E i \in 1..Len(matched) : matched[i].id = lastOp.id

\* C5: from a mismatch until its timer fires (a timer is outstanding) every
\* click leaves selected, matched, incorrect, gameWon and roundsWon unchanged
\* and starts no timer.
C5_RejectedUntilTimerFires ==
    [][ (timers > 0 /\ lastOp'.name = "click")
        => UNCHANGED <<selected, matched, incorrect, gameWon, roundsWon,
                       timers>> ]_vars

\* C6: a mismatch makes the two compared tiles the selection and sets the
\* highlight and starts a timer; the timer callback empties the selection and
\* clears the highlight; neither step changes the deck, matched, gameWon or
\* roundsWon; and after a mismatch the timer callback eventually runs.
C6_MismatchStep ==
    (lastOp'.name = "click" /\ lastOp'.branch = "mismatch")
    => /\ Len(selected) = 1
       /\ selected' = <<selected[1], TileById(lastOp'.id)>>
       /\ incorrect'
       /\ timers' = timers + 1
       /\ UNCHANGED <<quizData, matched, gameWon, roundsWon>>

C6_TimerStep ==
    lastOp'.name = "timer"
    => /\ selected' = <<>>
       /\ ~incorrect'
       /\ timers' = timers - 1
       /\ UNCHANGED <<quizData, matched, gameWon, roundsWon>>

Known == {j \in 1..Len(countries[1]) : countries[1][j].capital # NA}

\* C7: every tile of the deck comes from a country of the data whose capital is
\* not "N/A"; every tile has exactly one partner, of the other type, with
\* mutual value / pairValue, and no duplicate; the ids are 1..Len(deck), the
\* country tile of a pair carrying the odd id before its capital tile.
C7_DeckPairs ==
    status = "success" =>
        LET n == Len(quizData) IN
        /\ {quizData[i].id : i \in 1..n} = 1..n
        /\ \A i \in 1..n :
              LET t == quizData[i] IN
              /\ t.value # NA /\ t.pairValue # NA
              /\ \E j \in Known :
                    IF t.type = "country"
                    THEN t.value = countries[1][j].name
                         /\ t.pairValue = countries[1][j].capital
                    ELSE t.type = "capital"
                         /\ t.value = countries[1][j].capital
                         /\ t.pairValue = countries[1][j].name
              /\ Cardinality({k \in 1..n : /\ quizData[k].type # t.type
                                            /\ quizData[k].value = t.pairValue
                                            /\ quizData[k].pairValue = t.value}) = 1
              /\ Cardinality({k \in 1..n : /\ quizData[k].type = t.type
                                            /\ quizData[k].value = t.value
                                            /\ quizData[k].pairValue = t.pairValue}) = 1
              /\ t.type = "country" =>
                    /\ t.id % 2 = 1
                    /\ \E k \in 1..n : /\ quizData[k].id = t.id + 1
                                       /\ quizData[k].type = "capital"
                                       /\ quizData[k].value = t.pairValue
                                       /\ quizData[k].pairValue = t.value

C7_Witness ==
    /\ status = "success"
    /\ Len(quizData) >= 4
    /\ \E j \in 1..Len(countries[1]) : countries[1][j].capital = NA
    /\ \E i \in 1..Len(quizData) : quizData[i].value = quizData[i].pairValue

\* C8: the deck has 2 * min(5, number of countries with a known capital)
\* tiles, so an even number and at most 10; put back in id order it is the
\* list of tiles built for a selection of distinct countries with a capital:
\* the shuffle changed the order only.
C8_DeckSize ==
    status = "success" =>
        LET n == Len(quizData)
            byId == [k \in 1..n |-> TileById(k)]
            sel == [j \in 1..(n \div 2) |->
                      [name |-> byId[2 * j - 1].value,
                       capital |-> byId[2 * j - 1].pairValue]]
        IN  /\ n = 2 * Min(5, Cardinality(Known))
            /\ n % 2 = 0
            /\ n <= 10
            /\ {quizData[i].id : i \in 1..n} = 1..n
            /\ byId = quizItems(sel)
            /\ \A j \in 1..Len(sel) : \E c \in Known : countries[1][c] = sel[j]
            /\ \A j, k \in 1..Len(sel) : sel[j] = sel[k] => j = k

C8_Witness ==
    /\ status = "success"
    /\ Cardinality(Known) > 5
    /\ Len(quizData) = 10
    /\ quizData[1].id # 1

\* C9: initializeGame empties selected and matched, clears gameWon and leaves
\* roundsWon alone; roundsWon never decreases and is the number of rounds
\* completed so far.
C9_CleanRound ==
    [][ /\ InitializeRan => /\ selected' = <<>>
                            /\ matched' = <<>>
                            /\ ~gameWon'
                            /\ roundsWon' = roundsWon
        /\ roundsWon' >= roundsWon
        /\ roundsWon' = roundsCompleted' ]_vars

\* C10: Loading -> Playing -> Won -> Playing: the first initializeGame runs on
\* the first successful fetch, gameWon is set only by the match of the last
\* pair, and initializeGame runs again only from Won.
C10_Lifecycle ==
    [][ /\ (lastOp'.name = "fetch" /\ lastOp'.branch = "effect")
              => status = "loading" /\ status' = "success"
        /\ (gameWon' /\ ~gameWon)
              => /\ lastOp'.branch = "match"
                 /\ Len(matched') = Len(quizData)
        /\ (InitializeRan /\ status # "loading") => gameWon ]_vars
\* the step is a failed fetch attempt
FetchFailed ==
    /\ lastOp'.name \in {"fetch", "refetch"}
    /\ lastOp'.branch \in {"retry", "error"}

\* C11: every failed fetch, first load or Play Again refetch, leaves the app in
\* the error state (isError); nothing fetches again by itself: after a failure
\* the query is not loading, and a refetch is started by Play Again only.
C11_FailureIsError ==
    [][ /\ FetchFailed => status' = "error"
        /\ refetches' > refetches => lastOp'.name = "playAgain" ]_vars
\* C12: a refetch completion never re-initializes a round in play in which the
\* user has selected or matched tiles (a stale fetch is discarded).
C12_StaleFetchDiscarded ==
    [][ (lastOp'.name = "refetch" /\ ~gameWon)
        => selected = <<>> /\ matched = <<>> ]_vars

\* C13: selected holds at most two tiles, and incorrect is true exactly when
\* it holds two.
C13_HighlightIffTwo ==
    /\ Len(selected) <= 2
    /\ incorrect <=> Len(selected) = 2

\* C14: at most one timer is outstanding; while one is, selected holds the two
\* mismatched tiles, highlighted, and the game is not won; the timer callback
\* clears nothing but those two tiles.
C14_OneTimer ==
    /\ timers <= 1
    /\ timers = 1 => Len(selected) = 2 /\ incorrect /\ ~gameWon

\* the ids of the tiles in matched, in selected, in the deck
Ids(tiles) == {tiles[i].id : i \in 1..Len(tiles)}

\* C15: matched holds no tile twice, only tiles of the deck, an even number of
\* them, and none that is selected; gameWon holds exactly when the deck is not
\* empty and all its tiles are in matched.
C15_MatchedSet ==
    /\ Cardinality(Ids(matched)) = Len(matched)
    /\ \A i \in 1..Len(matched) : \E k \in 1..Len(quizData) : quizData[k] = matched[i]
    /\ Len(matched) % 2 = 0
    /\ Ids(matched) \cap Ids(selected) = {}
    /\ gameWon <=> (quizData # <<>> /\ Ids(quizData) \subseteq Ids(matched))

C15_Witness ==
    /\ gameWon
    /\ Len(quizData) = 4
    /\ Len(matched) = 4
    /\ roundsCompleted >= 2

\* the country record a tile was built from: tiles 2j - 1 and 2j come from
\* the j-th selected country
RecordOf(tile) == (tile.id + 1) \div 2

\* C16: the two tiles of every matched pair come from the same country
\* record, and for any two tiles of the deck a click on the one with the other
\* pending matches iff it does with the roles exchanged.
C16_TruePairs ==
    /\ \A k \in 1..Len(matched) :
          k % 2 = 1 => RecordOf(matched[k]) = RecordOf(matched[k + 1])
    /\ \A a, b \in 1..Len(quizData) :
          isPair(quizData[a], quizData[b]) <=> isPair(quizData[b], quizData[a])

\* the tiles of the deck that are not in matched
Unmatched == {k \in 1..Len(quizData) : quizData[k].id \notin Ids(matched)}

C18_SameTileTwice ==
    [][ (HandlerRan /\ Len(selected) = 1 /\ selected[1].id = lastOp'.id)
        => /\ selected' = <<selected[1], selected[1]>>
           /\ incorrect'
           /\ timers' = timers + 1
           /\ matched' = matched
           /\ lastOp'.branch = "mismatch" ]_vars

C18_Witness ==
    /\ lastOp.name = "click" /\ lastOp.branch = "mismatch"
    /\ Len(selected) = 2
    /\ selected[1] = selected[2]
    /\ selected[1].value = "Singapore"
    /\ selected[1].id = lastOp.id
====
